---- MODULE Spec2Model ----
(***************************************************************************)
(* A model of the nookipedia-api client (NookipediaApi.request, its        *)
(* convenience methods and its error classes).                             *)
(*                                                                         *)
(* Strings are sequences of characters, a character being a one-letter     *)
(* TLA+ string.  The only symbol longer than one letter is an origin       *)
(* (scheme and authority, e.g. "https://h"), which the URL parser treats   *)
(* as a unit.                                                              *)
(***************************************************************************)
EXTENDS Integers, Sequences, FiniteSets, TLC

(***************************************************************************)
(* Bounds of the model.                                                    *)
(***************************************************************************)
\* longest caller-supplied placeholder value
MaxLen == 2
\* longest list value of a query entry
MaxList == 2
\* longest path and query part of a configured base URL
MaxBaseLen == 3
\* most headers a caller passes in fetchOptions.headers
MaxHeaders == 2

(***************************************************************************)
(* Program constants.                                                      *)
(***************************************************************************)
NOOKIPEDIA_API_VERSION == "1.6.0"

FallbackTitle == "Failed to fetch Nookipedia API"

DefaultApiUrl == <<"https://api.nookipedia.com", "/">>

\* a status the response does not report (fetchResponse.status === undefined)
NoStatus == -1

(***************************************************************************)
(* Sequences.                                                              *)
(***************************************************************************)
SeqsUpTo(S, n) == UNION {[1..k -> S] : k \in 0..n}

EndsWith(s, t) == Len(t) <= Len(s) /\ SubSeq(s, Len(s) - Len(t) + 1, Len(s)) = t

\* the least i with pat = s[i .. i+Len(pat)-1], or 0 (String.prototype.indexOf + 1)
IndexOf(s, pat) ==
    LET hits == {i \in 1..(Len(s) - Len(pat) + 1) : SubSeq(s, i, i + Len(pat) - 1) = pat}
    IN  IF hits = {} THEN 0 ELSE CHOOSE i \in hits : \A j \in hits : i <= j

Contains(s, pat) == IndexOf(s, pat) # 0

HasChar(s, c) == \E i \in 1..Len(s) : s[i] = c

(***************************************************************************)
(* String.prototype.replace(pattern: string, replacement: string): the     *)
(* first occurrence of the pattern is replaced, and the replacement is      *)
(* expanded by GetSubstitution: $$ is a dollar and $& the matched text; a   *)
(* pattern that is a string has no captures, so $1.. stay as written.       *)
(* (Dollar-backtick and dollar-apostrophe, the text before and after the    *)
(* match, are left out: no input of the model holds those characters.)      *)
(***************************************************************************)
RECURSIVE GetSubstitution(_, _, _, _)
GetSubstitution(rep, matched, before, after) ==
    IF rep = <<>> THEN <<>>
    ELSE IF Head(rep) = "$" /\ Len(rep) >= 2
         THEN CASE rep[2] = "$" ->
                     <<"$">> \o GetSubstitution(SubSeq(rep, 3, Len(rep)), matched, before, after)
                [] rep[2] = "&" ->
                     matched \o GetSubstitution(SubSeq(rep, 3, Len(rep)), matched, before, after)
                [] OTHER ->
                     <<"$">> \o GetSubstitution(Tail(rep), matched, before, after)
         ELSE <<Head(rep)>> \o GetSubstitution(Tail(rep), matched, before, after)

StringReplace(s, pat, rep) ==
    LET i == IndexOf(s, pat)
    IN  IF i = 0 THEN s
        ELSE LET before == SubSeq(s, 1, i - 1)
                 after  == SubSeq(s, i + Len(pat), Len(s))
             IN  before \o GetSubstitution(rep, pat, before, after) \o after

(***************************************************************************)
(* Path resolution: for every entry [key, value] of replacePath, in         *)
(* Object.entries order, finalPath = finalPath.replace(`{${key}}`, value).  *)
(* replacePath is a sequence of <<key, value>> pairs; an absent replacePath *)
(* is the empty sequence (replacePath ?? {}).                               *)
(***************************************************************************)
Placeholder(key) == <<"{">> \o key \o <<"}">>

ResolvePathNone(path, replacePath) == path

RECURSIVE ResolvePathUndefined(_, _)
ResolvePathUndefined(path, replacePath) ==
    IF replacePath = <<>>
    THEN StringReplace(StringReplace(path, Placeholder(<<"b", "u", "g">>),
                                     <<"u", "n", "d", "e", "f", "i", "n", "e", "d">>),
                       Placeholder(<<"f", "i", "s", "h">>),
                       <<"u", "n", "d", "e", "f", "i", "n", "e", "d">>)
    ELSE ResolvePathUndefined(StringReplace(path, Placeholder(Head(replacePath)[1]),
                                            Head(replacePath)[2]),
                              Tail(replacePath))

RECURSIVE ResolvePath(_, _)
ResolvePath(path, replacePath) ==
    IF replacePath = <<>> THEN path
    ELSE ResolvePath(StringReplace(path, Placeholder(Head(replacePath)[1]), Head(replacePath)[2]),
                     Tail(replacePath))

(***************************************************************************)
(* new URL(input, base), for an input without a scheme and an http(s)       *)
(* base.  A parsed URL is [ok, origin, path, hasQuery, query]: path is the  *)
(* list of path segments, query the text after "?" (hasQuery tells a null   *)
(* query from an empty one).  Inputs hold no "#", "\", "." or control       *)
(* characters, so fragments, backslashes and dot segments are not modelled, *)
(* and an input never starts with "//".                                     *)
(***************************************************************************)
Origins == {"https://api.nookipedia.com", "https://h"}

HexOf(c) ==
    CASE c = " " -> <<"%", "2", "0">>
      [] c = "$" -> <<"%", "2", "4">>
      [] c = "%" -> <<"%", "2", "5">>
      [] c = "&" -> <<"%", "2", "6">>
      [] c = "+" -> <<"%", "2", "B">>
      [] c = "/" -> <<"%", "2", "F">>
      [] c = "=" -> <<"%", "3", "D">>
      [] c = "?" -> <<"%", "3", "F">>
      [] c = "{" -> <<"%", "7", "B">>
      [] c = "}" -> <<"%", "7", "D">>
      [] OTHER   -> <<c>>

\* the path percent-encode set, cut to the characters inputs hold
PathEncodeSet == {" ", "?", "{", "}"}

\* the special-query percent-encode set, cut to the characters inputs hold
QueryEncodeSet == {" "}

RECURSIVE PercentEncode(_, _)
PercentEncode(s, set) ==
    IF s = <<>> THEN <<>>
    ELSE (IF Head(s) \in set THEN HexOf(Head(s)) ELSE <<Head(s)>>) \o PercentEncode(Tail(s), set)

\* leading and trailing spaces of the input are removed before parsing
RECURSIVE StripLeading(_)
StripLeading(s) == IF s # <<>> /\ Head(s) = " " THEN StripLeading(Tail(s)) ELSE s

RECURSIVE StripTrailing(_)
StripTrailing(s) ==
    IF s # <<>> /\ s[Len(s)] = " " THEN StripTrailing(SubSeq(s, 1, Len(s) - 1)) ELSE s

StripSpace(s) == StripTrailing(StripLeading(s))

\* the pieces of s between the occurrences of sep; Split(<<>>, sep) = << <<>> >>
RECURSIVE Split(_, _)
Split(s, sep) ==
    LET i == IndexOf(s, <<sep>>)
    IN  IF i = 0 THEN <<s>>
        ELSE <<SubSeq(s, 1, i - 1)>> \o Split(SubSeq(s, i + 1, Len(s)), sep)

BeforeQuery(s) ==
    LET i == IndexOf(s, <<"?">>) IN IF i = 0 THEN s ELSE SubSeq(s, 1, i - 1)

AfterQuery(s) ==
    LET i == IndexOf(s, <<"?">>) IN IF i = 0 THEN <<>> ELSE SubSeq(s, i + 1, Len(s))

\* path state: the segments of s up to its "?", each percent-encoded
PathSegments(s) ==
    LET raw == Split(BeforeQuery(s), "/")
    IN  [i \in 1..Len(raw) |-> PercentEncode(raw[i], PathEncodeSet)]

QueryOf(s) == PercentEncode(AfterQuery(s), QueryEncodeSet)

InvalidUrl == [ok |-> FALSE, origin |-> "", path |-> <<>>, hasQuery |-> FALSE, query |-> <<>>]

\* new URL(base): scheme and authority, then path start state, path state, query state
ParseBase(base) ==
    LET b == StripSpace(base)
    IN  IF b = <<>> \/ Head(b) \notin Origins THEN InvalidUrl
        ELSE LET rest  == Tail(b)
                 after == IF rest # <<>> /\ Head(rest) = "/" THEN Tail(rest) ELSE rest
             IN  [ok |-> TRUE, origin |-> Head(b), path |-> PathSegments(after),
                  hasQuery |-> HasChar(rest, "?"), query |-> QueryOf(rest)]

\* shorten a path: drop its last segment
Shorten(path) == IF path = <<>> THEN <<>> ELSE SubSeq(path, 1, Len(path) - 1)

\* relative state: "/x" replaces the base's path, "?x" keeps it, "x" is merged
\* with the base's path less its last segment
ParseRelative(input, base) ==
    LET s == StripSpace(input)
    IN  IF ~base.ok THEN InvalidUrl
        \* an empty input takes the query of the base, an empty one left out
        ELSE IF s = <<>> THEN [base EXCEPT !.hasQuery = base.query # <<>>]
        ELSE IF Head(s) = "/"
             THEN [base EXCEPT !.path = PathSegments(Tail(s)),
                               !.hasQuery = HasChar(s, "?"), !.query = QueryOf(s)]
        ELSE IF Head(s) = "?"
             THEN [base EXCEPT !.hasQuery = TRUE, !.query = QueryOf(s)]
        ELSE [base EXCEPT !.path = Shorten(base.path) \o PathSegments(s),
                          !.hasQuery = HasChar(s, "?"), !.query = QueryOf(s)]

\* new URL(finalPath, this.apiUrl)
NewURL(input, base) == ParseRelative(input, ParseBase(base))

RECURSIVE JoinPath(_)
JoinPath(segs) == IF segs = <<>> THEN <<>> ELSE <<"/">> \o Head(segs) \o JoinPath(Tail(segs))

\* url.href
Href(u) == <<u.origin>> \o JoinPath(u.path) \o (IF u.hasQuery THEN <<"?">> \o u.query ELSE <<>>)

(***************************************************************************)
(* url.searchParams: the list of <<name, value>> pairs parsed from the      *)
(* URL's query (application/x-www-form-urlencoded), changed by set and      *)
(* append, and written back to the URL's query after each change.           *)
(***************************************************************************)
\* characters the urlencoded serializer leaves as they are
FormSafe ==
    {"a", "b", "c", "d", "e", "f", "g", "h", "i", "j", "k", "l", "m", "n", "o", "p", "q",
     "r", "s", "t", "u", "v", "w", "x", "y", "z", "0", "1", "2", "3", "4", "5", "6", "7",
     "8", "9", "*", "-", ".", "_"}

RECURSIVE FormEncode(_)
FormEncode(s) ==
    IF s = <<>> THEN <<>>
    ELSE (CASE Head(s) = " "      -> <<"+">>
            [] Head(s) \in FormSafe -> <<Head(s)>>
            [] OTHER              -> HexOf(Head(s))) \o FormEncode(Tail(s))

\* the character a percent escape stands for (the escapes HexOf produces)
Unhex(h1, h2) ==
    CASE h1 = "2" /\ h2 = "0" -> " "
      [] h1 = "2" /\ h2 = "4" -> "$"
      [] h1 = "2" /\ h2 = "5" -> "%"
      [] h1 = "2" /\ h2 = "6" -> "&"
      [] h1 = "2" /\ h2 = "B" -> "+"
      [] h1 = "2" /\ h2 = "F" -> "/"
      [] h1 = "3" /\ h2 = "D" -> "="
      [] h1 = "3" /\ h2 = "F" -> "?"
      [] h1 = "7" /\ h2 = "B" -> "{"
      [] h1 = "7" /\ h2 = "D" -> "}"
      [] OTHER                -> "%"

IsEscape(s) == Len(s) >= 3 /\ s[1] = "%" /\ HexOf(Unhex(s[2], s[3])) = SubSeq(s, 1, 3)

\* "+" is a space, a percent escape is its character
RECURSIVE FormDecode(_)
FormDecode(s) ==
    IF s = <<>> THEN <<>>
    ELSE IF IsEscape(s) THEN <<Unhex(s[2], s[3])>> \o FormDecode(SubSeq(s, 4, Len(s)))
    ELSE IF Head(s) = "+" THEN <<" ">> \o FormDecode(Tail(s))
    ELSE <<Head(s)>> \o FormDecode(Tail(s))

FormPair(piece) ==
    LET i == IndexOf(piece, <<"=">>)
    IN  IF i = 0 THEN <<FormDecode(piece), <<>>>>
        ELSE <<FormDecode(SubSeq(piece, 1, i - 1)), FormDecode(SubSeq(piece, i + 1, Len(piece)))>>

RECURSIVE FormPairs(_)
FormPairs(pieces) ==
    IF pieces = <<>> THEN <<>>
    ELSE (IF Head(pieces) = <<>> THEN <<>> ELSE <<FormPair(Head(pieces))>>)
         \o FormPairs(Tail(pieces))

\* the urlencoded parser: pieces between "&", empty pieces skipped
FormParse(q) == FormPairs(Split(q, "&"))

\* the urlencoded serializer: name=value joined by "&"
RECURSIVE FormSerialize(_)
FormSerialize(list) ==
    IF list = <<>> THEN <<>>
    ELSE FormEncode(Head(list)[1]) \o <<"=">> \o FormEncode(Head(list)[2])
         \o (IF Len(list) > 1 THEN <<"&">> ELSE <<>>) \o FormSerialize(Tail(list))

\* URLSearchParams.append(name, value)
ParamsAppend(list, name, value) == Append(list, <<name, value>>)

RECURSIVE DropNamed(_, _)
DropNamed(list, name) ==
    IF list = <<>> THEN <<>>
    ELSE (IF Head(list)[1] = name THEN <<>> ELSE <<Head(list)>>) \o DropNamed(Tail(list), name)

\* URLSearchParams.set(name, value): the first pair named name gets the value
\* and the other pairs of that name are removed; without one, a pair is added
ParamsSet(list, name, value) ==
    LET hits == {i \in 1..Len(list) : list[i][1] = name}
    IN  IF hits = {} THEN Append(list, <<name, value>>)
        ELSE LET i == CHOOSE h \in hits : \A j \in hits : h <= j
             IN  SubSeq(list, 1, i - 1) \o << <<name, value>> >>
                 \o DropNamed(SubSeq(list, i + 1, Len(list)), name)

(***************************************************************************)
(* Query values.  A scalar is [t |-> "str", s |-> <text>] or                *)
(* [t |-> "num", n |-> <number>]; a list is [t |-> "list", items |-> <a     *)
(* sequence of scalars>].  A query is the sequence of <<key, value>> pairs  *)
(* that Object.entries(query) yields; an absent query is the empty one.     *)
(***************************************************************************)
Digit(d) ==
    CASE d = 0 -> "0" [] d = 1 -> "1" [] d = 2 -> "2" [] d = 3 -> "3" [] d = 4 -> "4"
      [] d = 5 -> "5" [] d = 6 -> "6" [] d = 7 -> "7" [] d = 8 -> "8" [] d = 9 -> "9"

\* Number.prototype.toString() of a natural number
RECURSIVE NumToString(_)
NumToString(n) == IF n < 10 THEN <<Digit(n)>> ELSE NumToString(n \div 10) \o <<Digit(n % 10)>>

\* val.toString()
ValToString(v) == IF v.t = "num" THEN NumToString(v.n) ELSE v.s

IsArray(v) == v.t = "list"

RECURSIVE AppendAll(_, _, _)
AppendAll(list, key, items) ==
    IF items = <<>> THEN list
    ELSE AppendAll(ParamsAppend(list, key, ValToString(Head(items))), key, Tail(items))

SetAll(list, key, items) ==
    IF items = <<>> THEN list ELSE ParamsSet(list, key, ValToString(items[Len(items)]))

ApplyEntrySetOnly(list, key, value) ==
    IF IsArray(value) THEN SetAll(list, key, value.items)
    ELSE ParamsSet(list, key, ValToString(value))

\* one entry of the query: a list appends each element, a scalar is set
ApplyEntry(list, key, value) ==
    IF IsArray(value) THEN AppendAll(list, key, value.items)
    ELSE ParamsSet(list, key, ValToString(value))

RECURSIVE ApplyQueryReversed(_, _)
ApplyQueryReversed(list, query) ==
    IF query = <<>> THEN list
    ELSE ApplyEntry(ApplyQueryReversed(list, Tail(query)), Head(query)[1], Head(query)[2])

RECURSIVE ApplyQuery(_, _)
ApplyQuery(list, query) ==
    IF query = <<>> THEN list
    ELSE ApplyQuery(ApplyEntry(list, Head(query)[1], Head(query)[2]), Tail(query))

\* the query keys the Names and the ByMonth methods write, and the text 'true'
ExcludeDetailsKey == <<"e", "x", "c", "l", "u", "d", "e", "d", "e", "t", "a", "i", "l", "s">>

MonthKey == <<"m", "o", "n", "t", "h">>

TrueText == <<"t", "r", "u", "e">>

\* {...query, [key]: value}: the entry of that key gets the value where it
\* stands, and is added at the end when query has none
MergeEntryCallerWins(query, key, value) ==
    IF \E i \in 1..Len(query) : query[i][1] = key THEN query
    ELSE Append(query, <<key, value>>)

MergeEntry(query, key, value) ==
    IF \E i \in 1..Len(query) : query[i][1] = key
    THEN [i \in 1..Len(query) |-> IF query[i][1] = key THEN <<key, value>> ELSE query[i]]
    ELSE Append(query, <<key, value>>)

\* whether the query makes any call of set or append
Touches(query) ==
    \E i \in 1..Len(query) : ~IsArray(query[i][2]) \/ query[i][2].items # <<>>

\* the URL after the query entries are applied to url.searchParams
WithQuery(u, query) ==
    IF ~u.ok \/ ~Touches(query) THEN u
    ELSE LET list == ApplyQuery(FormParse(u.query), query)
         IN  [u EXCEPT !.hasQuery = list # <<>>, !.query = FormSerialize(list)]

(***************************************************************************)
(* Headers.  A header list is a sequence of <<name, value>> pairs with the  *)
(* names in lower case: names are matched without regard to case.  A header *)
(* value is a TLA+ string without leading or trailing white space.  get     *)
(* yields the values of a name in order (the platform joins them with       *)
(* ", "), the empty sequence standing for null.                             *)
(***************************************************************************)
Lower(name) ==
    CASE name \in {"Accept-Version", "ACCEPT-VERSION", "accept-version"} -> "accept-version"
      [] name \in {"X-API-KEY", "X-Api-Key", "x-api-key"}                -> "x-api-key"
      [] name \in {"Test", "test"}                                       -> "test"
      [] name \in {"X-Trace", "x-trace"}                                 -> "x-trace"
      [] OTHER                                                           -> name

HeadersAppend(list, name, value) == Append(list, <<Lower(name), value>>)

RECURSIVE HeadersFill(_, _)
HeadersFill(list, init) ==
    IF init = <<>> THEN list
    ELSE HeadersFill(HeadersAppend(list, Head(init)[1], Head(init)[2]), Tail(init))

\* new Headers(init): init is a sequence of <<name, value>> pairs, an absent
\* init the empty sequence
NewHeaders(init) == HeadersFill(<<>>, init)

\* Headers.set(name, value)
HeadersSet(list, name, value) == ParamsSet(list, Lower(name), value)

RECURSIVE ValuesNamed(_, _)
ValuesNamed(list, lname) ==
    IF list = <<>> THEN <<>>
    ELSE (IF Head(list)[1] = lname THEN <<Head(list)[2]>> ELSE <<>>)
         \o ValuesNamed(Tail(list), lname)

\* Headers.get(name)
HeadersGet(list, name) == ValuesNamed(list, Lower(name))

\* the headers of a request: the caller's, then the two mandatory ones set
ComposeHeadersNoInit(callerHeaders, key) ==
    HeadersSet(HeadersSet(NewHeaders(<<>>), "Accept-Version", NOOKIPEDIA_API_VERSION),
               "X-API-KEY", key)

ComposeHeadersCallerLast(callerHeaders, key) ==
    HeadersFill(ComposeHeadersNoInit(callerHeaders, key), callerHeaders)

ComposeHeaders(callerHeaders, key) ==
    HeadersSet(HeadersSet(NewHeaders(callerHeaders), "Accept-Version", NOOKIPEDIA_API_VERSION),
               "X-API-KEY", key)

(***************************************************************************)
(* Response bodies and errors.  A decoded body is a JSON value: json is     *)
(* "object" for an object with optional title, details and foo members      *)
(* (Absent: no such member), and "null" for the JSON value null (NullBody). *)
(* An error is [kind, body, code, message]: kind is the class of the thrown *)
(* object, code NoStatus when undefined, message what Error(body.title)     *)
(* keeps.                                                                   *)
(***************************************************************************)
Absent == "(absent)"

EmptyBody == [json |-> "object", title |-> Absent, details |-> Absent, foo |-> Absent]

Body(title, details, foo) == [json |-> "object", title |-> title, details |-> details, foo |-> foo]

NullBody == [json |-> "null", title |-> Absent, details |-> Absent, foo |-> Absent]

\* the bodies of the remote protocol: JSON objects
Bodies == {EmptyBody, Body("a", Absent, Absent), Body("title", "details", Absent),
           Body(Absent, Absent, "1")}

MessageOf(body) == IF body.title = Absent THEN "" ELSE body.title

\* an exception that is not of the library: a TypeError, an AbortError, a SyntaxError
ForeignError(kind) == [kind |-> kind, body |-> EmptyBody, code |-> NoStatus, message |-> kind]

\* new NookipediaError(body, code); body.title of null throws a TypeError
NookipediaError(body, code) ==
    IF body = NullBody
    THEN ForeignError("TypeError")
    ELSE [kind |-> "NookipediaError", body |-> body, code |-> code, message |-> MessageOf(body)]

\* new NookipediaError400(body), ...401, ...404, ...500: super(body), then the
\* code of the class
NookipediaError400(body) ==
    IF body = NullBody THEN NookipediaError(body, NoStatus)
    ELSE [NookipediaError(body, NoStatus) EXCEPT !.kind = "NookipediaError400", !.code = 400]

NookipediaError401(body) ==
    IF body = NullBody THEN NookipediaError(body, NoStatus)
    ELSE [NookipediaError(body, NoStatus) EXCEPT !.kind = "NookipediaError401", !.code = 401]

NookipediaError404(body) ==
    IF body = NullBody THEN NookipediaError(body, NoStatus)
    ELSE [NookipediaError(body, NoStatus) EXCEPT !.kind = "NookipediaError404", !.code = 404]

NookipediaError500(body) ==
    IF body = NullBody THEN NookipediaError(body, NoStatus)
    ELSE [NookipediaError(body, NoStatus) EXCEPT !.kind = "NookipediaError500", !.code = 500]

\* the class a class extends (Object: none)
SuperClassFlat(kind) ==
    IF kind \in {"NookipediaError", "NookipediaError400", "NookipediaError401", "NookipediaError404",
                 "NookipediaError500", "TypeError", "SyntaxError", "AbortError"}
    THEN "Error" ELSE "Object"

SuperClass(kind) ==
    CASE kind \in {"NookipediaError400", "NookipediaError401", "NookipediaError404",
                   "NookipediaError500"} -> "NookipediaError"
      [] kind \in {"NookipediaError", "TypeError", "SyntaxError", "AbortError"} -> "Error"
      [] OTHER -> "Object"

RECURSIVE Extends(_, _)
Extends(kind, class) ==
    \/ kind = class
    \/ kind # "Object" /\ Extends(SuperClass(kind), class)

\* error instanceof class
InstanceOf(error, class) == Extends(error.kind, class)

NoError == [kind |-> "none", body |-> EmptyBody, code |-> NoStatus, message |-> ""]

Pending == [state |-> "pending", value |-> EmptyBody, error |-> NoError]

Resolved(value) == [state |-> "resolved", value |-> value, error |-> NoError]

Rejected(error) == [state |-> "rejected", value |-> EmptyBody, error |-> error]

\* await of a promise that rejects with reason e, outside any try: the promise
\* of the async function rejects with e
AwaitRejectedWrapped(e) ==
    Rejected(NookipediaError([EmptyBody EXCEPT !.title = FallbackTitle], NoStatus))

AwaitRejected(e) == Rejected(e)

\* the switch over fetchResponse.status
ErrorForGenericOnly(status, body) == NookipediaError([EmptyBody EXCEPT !.title = FallbackTitle], status)

ErrorForKeepsBody(status, body) ==
    CASE status = 400 -> NookipediaError400(body)
      [] status = 401 -> NookipediaError401(body)
      [] status = 404 -> NookipediaError404(body)
      [] status = 500 -> NookipediaError500(body)
      [] OTHER        -> NookipediaError(body, status)

ErrorForMergesBody(status, body) ==
    CASE status = 400 -> NookipediaError400(body)
      [] status = 401 -> NookipediaError401(body)
      [] status = 404 -> NookipediaError404(body)
      [] status = 500 -> NookipediaError500(body)
      [] OTHER        -> NookipediaError([body EXCEPT !.title = FallbackTitle], status)

ErrorFor(status, body) ==
    CASE status = 400 -> NookipediaError400(body)
      [] status = 401 -> NookipediaError401(body)
      [] status = 404 -> NookipediaError404(body)
      [] status = 500 -> NookipediaError500(body)
      [] OTHER        -> NookipediaError([EmptyBody EXCEPT !.title = FallbackTitle], status)

\* what request does with the decoded body: return it, or throw by status
ClassifyByStatus(ok, status, body) ==
    IF ok /\ status \notin {400, 401, 404, 500} THEN Resolved(body) ELSE Rejected(ErrorFor(status, body))

Classify(ok, status, body) ==
    IF ok THEN Resolved(body) ELSE Rejected(ErrorFor(status, body))

(***************************************************************************)
(* The endpoint catalogue (the part of it the model calls).                 *)
(***************************************************************************)
BugsPathRelative == <<"n", "h", "/", "b", "u", "g", "s">>

BugsPath == <<"/", "n", "h", "/", "b", "u", "g", "s">>

BugPath == <<"/", "n", "h", "/", "b", "u", "g", "s", "/", "{", "b", "u", "g", "}">>

FishPath == <<"/", "n", "h", "/", "f", "i", "s", "h", "/", "{", "f", "i", "s", "h", "}">>

RecipesPath == <<"/", "n", "h", "/", "r", "e", "c", "i", "p", "e", "s">>

BugKey == <<"b", "u", "g">>

FishKey == <<"f", "i", "s", "h">>

(***************************************************************************)
(* Arguments.  fetchOptions is [headers, method, body, signal], "absent"    *)
(* for a member the caller did not give; absent fetchOptions are            *)
(* NoFetchOptions.                                                          *)
(* options is [query, fetchOptions]; the argument of request is             *)
(* [path, replacePath, query, fetchOptions].                                *)
(***************************************************************************)
NoFetchOptions == [headers |-> <<>>, method |-> "absent", body |-> "absent", signal |-> "absent"]

NoOptions == [query |-> <<>>, fetchOptions |-> NoFetchOptions]

NoArgs == [path |-> <<>>, replacePath |-> <<>>, query |-> <<>>, fetchOptions |-> NoFetchOptions]

\* what the caller passed: the placeholder mapping, the query and the
\* fetchOptions objects (of args for request, of options for a method), and
\* value, the string argument of a method (a name or a month; none: empty)
NoGiven ==
    [value |-> <<>>, replacePath |-> <<>>, query |-> <<>>, fetchOptions |-> NoFetchOptions]

NoSent == [url |-> <<>>, headers |-> <<>>, method |-> "absent", body |-> "absent",
           signal |-> "absent"]

\* the second argument of fetch, {...fetchOptions, headers}: the members of
\* fetchOptions, the member headers replaced by the composed headers
FetchInitNoSpread(fetchOptions, headers) == [NoFetchOptions EXCEPT !.headers = headers]

FetchInit(fetchOptions, headers) == [fetchOptions EXCEPT !.headers = headers]

\* fetchResponse: no response yet, and the response the transport delivered
NoResponse == [arrived |-> FALSE, ok |-> FALSE, status |-> NoStatus]

Response(ok, status) == [arrived |-> TRUE, ok |-> ok, status |-> status]

(***************************************************************************)
(* State.  apiKey and apiUrl are the public fields of each client.  A call  *)
(* is one invocation of request: pc is where it stands ("not-started",      *)
(* "awaitFetch": suspended on fetch(...), "awaitJson": suspended on         *)
(* fetchResponse.json(), "settled"), overlaps the calls that were suspended *)
(* when it was invoked, method the method of the client the caller called,  *)
(* given the objects it passed and inputs those objects as they are now,    *)
(* args the argument of request, finalPath the local of that name, sent     *)
(* what was handed to the transport (url.href and the init object),         *)
(* response the ok flag and status the transport delivered, body the local  *)
(* of that name once json() has delivered it (decoded), fetches the number  *)
(* of calls of fetch, failure the exception the promise of fetch rejected   *)
(* with (NoError: none), jsons the number of calls of fetchResponse.json(), *)
(* outcome how the returned promise settled.                                *)
(***************************************************************************)
VARIABLES apiKey, apiUrl, calls

vars == <<apiKey, apiUrl, calls>>

Clients == {1, 2}

CallIds == {1, 2}

Keys == {"k1", "k2"}

NewCall ==
    [pc |-> "not-started", client |-> 1, overlaps |-> {}, method |-> "none",
     given |-> NoGiven, inputs |-> NoGiven, args |-> NoArgs, finalPath |-> <<>>,
     sent |-> NoSent,
     fetches |-> 0, failure |-> NoError, response |-> NoResponse, jsons |-> 0,
     decoded |-> FALSE, body |-> EmptyBody,
     outcome |-> Pending]

\* new NookipediaApi(apiKey) for each client, no call made yet
Init ==
    /\ apiKey = [cl \in Clients |-> "k1"]
    /\ apiUrl = [cl \in Clients |-> DefaultApiUrl]
    /\ calls = [c \in CallIds |-> NewCall]

\* this.apiKey, read by request on client cl
ThisApiKeyCached(cl) == "k1"

ThisApiKey(cl) == apiKey[cl]

GivenWith(value, options) ==
    [value |-> value, replacePath |-> <<>>, query |-> options.query,
     fetchOptions |-> options.fetchOptions]

GivenOptions(options) == GivenWith(<<>>, options)

GivenArgs(args) ==
    [value |-> <<>>, replacePath |-> args.replacePath, query |-> args.query,
     fetchOptions |-> args.fetchOptions]

\* the objects of the caller once request has run to its first await: the
\* spreads and new Headers(...) copy them and Object.entries reads them, so
\* they are as they were passed
InputsAfterShared(given, args, headers) ==
    [given EXCEPT !.query = args.query, !.fetchOptions.headers = headers]

InputsAfter(given, args, headers) == given

\* toString() of undefined or null throws: the query has such a value, as an
\* entry or as an element of a list
QueryThrows(query) ==
    \E i \in 1..Len(query) :
        \/ query[i][2].t \in {"undefined", "null"}
        \/ /\ IsArray(query[i][2])
           /\ \E j \in 1..Len(query[i][2].items) :
                 query[i][2].items[j].t \in {"undefined", "null"}

\* an exception thrown in the body of the async function request: the promise
\* it returns is rejected with it
ThrowSync(e) == [state |-> "thrown", value |-> EmptyBody, error |-> e]

ThrowInAsync(e) == Rejected(e)

(***************************************************************************)
(* request(args) on client cl, up to its first await: the path is resolved, *)
(* the URL built (new URL throws a TypeError for a base it cannot parse,    *)
(* toString() one for a query value that is undefined or null, and either   *)
(* rejects the promise of the async function), the headers composed, and    *)
(* fetch called with url.href and {...fetchOptions, headers}.  method is    *)
(* the method of the client the caller invoked and given what it passed.    *)
(***************************************************************************)
RequestFrom(c, cl, args, method, given) ==
    /\ calls[c].pc = "not-started"
    /\ LET overlaps  == {d \in CallIds : calls[d].pc \in {"awaitFetch", "awaitJson"}}
           finalPath == ResolvePath(args.path, args.replacePath)
           parsed    == NewURL(finalPath, apiUrl[cl])
           url       == WithQuery(parsed, args.query)
           headers   == ComposeHeaders(args.fetchOptions.headers, ThisApiKey(cl))
           init      == FetchInit(args.fetchOptions, headers)
       IN  calls' = [calls EXCEPT ![c] =
             IF ~parsed.ok \/ QueryThrows(args.query)
             THEN [@ EXCEPT !.pc = "settled", !.client = cl, !.overlaps = overlaps,
                            !.method = method, !.given = given, !.inputs = given,
                            !.args = args, !.finalPath = finalPath,
                            !.outcome = ThrowInAsync(ForeignError("TypeError"))]
             ELSE [@ EXCEPT !.pc = "awaitFetch", !.client = cl, !.overlaps = overlaps,
                            !.method = method, !.given = given,
                            !.inputs = InputsAfter(given, args, headers),
                            !.args = args, !.finalPath = finalPath,
                            !.fetches = @ + 1,
                            !.sent = [url     |-> Href(url),
                                      headers |-> init.headers,
                                      method  |-> init.method,
                                      body    |-> init.body,
                                      signal  |-> init.signal]]]
    /\ UNCHANGED <<apiKey, apiUrl>>

\* request(args), called by the caller itself
Request(c, cl, args) == RequestFrom(c, cl, args, "request", GivenArgs(args))

\* getAllBugs(options): request({path: '/nh/bugs', ...options})
GetAllBugs(c, cl, options) ==
    RequestFrom(c, cl, [path |-> BugsPath, replacePath |-> <<>>, query |-> options.query,
                        fetchOptions |-> options.fetchOptions],
                "getAllBugs", GivenOptions(options))

\* getBug(bug, options): request({path: '/nh/bugs/{bug}', replacePath: {bug}, ...options})
GetBug(c, cl, bug, options) ==
    RequestFrom(c, cl, [path |-> BugPath, replacePath |-> << <<BugKey, bug>> >>,
                        query |-> options.query, fetchOptions |-> options.fetchOptions],
                "getBug", GivenWith(bug, options))

\* the transport resolves the promise of fetch: request goes on to call
\* fetchResponse.json() and suspends on it
FetchResolveLate(c, ok, status) ==
    /\ calls[c].pc \in {"awaitFetch", "settled"}
    /\ calls[c].fetches > 0
    /\ calls[c].jsons = 0
    /\ calls' = [calls EXCEPT ![c].pc = "awaitJson",
                              ![c].response = Response(ok, status),
                              ![c].jsons = @ + 1]
    /\ UNCHANGED <<apiKey, apiUrl>>

FetchResolveEarlyGeneric(c, ok, status) ==
    /\ calls[c].pc = "awaitFetch"
    /\ calls' = [calls EXCEPT ![c] =
                   IF ~ok /\ status \notin {400, 401, 404, 500}
                   THEN [@ EXCEPT !.pc = "settled",
                                  !.response = Response(ok, status),
                                  !.outcome = Rejected(ErrorFor(status, EmptyBody))]
                   ELSE [@ EXCEPT !.pc = "awaitJson",
                                  !.response = Response(ok, status),
                                  !.jsons = @ + 1]]
    /\ UNCHANGED <<apiKey, apiUrl>>

FetchResolveRebuilds(c, ok, status) ==
    /\ calls[c].pc = "awaitFetch"
    /\ calls' = [calls EXCEPT ![c].pc = "awaitJson",
                              ![c].response = Response(ok, status),
                              ![c].jsons = @ + 1,
                              ![c].sent.headers =
                                  ComposeHeaders(calls[c].args.fetchOptions.headers,
                                                 ThisApiKey(calls[c].client))]
    /\ UNCHANGED <<apiKey, apiUrl>>

FetchResolveParks(c, ok, status) ==
    /\ calls[c].pc = "awaitFetch"
    /\ calls' = [calls EXCEPT ![c].pc = "awaitTimer",
                              ![c].response = Response(ok, status)]
    /\ UNCHANGED <<apiKey, apiUrl>>

FetchResolve(c, ok, status) ==
    /\ calls[c].pc = "awaitFetch"
    /\ calls' = [calls EXCEPT ![c].pc = "awaitJson",
                              ![c].response = Response(ok, status),
                              ![c].jsons = @ + 1]
    /\ UNCHANGED <<apiKey, apiUrl>>

\* the transport rejects the promise of fetch: the exception leaves request
FetchRejectRetry(c, kind) ==
    /\ calls[c].pc = "awaitFetch"
    /\ calls' = [calls EXCEPT ![c] =
                   IF @.fetches < 2
                   THEN [@ EXCEPT !.fetches = @ + 1]
                   ELSE [@ EXCEPT !.pc = "settled",
                                  !.failure = ForeignError(kind),
                                  !.outcome = AwaitRejected(ForeignError(kind))]]
    /\ UNCHANGED <<apiKey, apiUrl>>

FetchRejectTimeout(c, kind) ==
    /\ calls[c].pc = "awaitFetch"
    /\ calls' = [calls EXCEPT ![c].pc = "settled",
                              ![c].outcome = Rejected(NookipediaError(
                                  [EmptyBody EXCEPT !.title = FallbackTitle], NoStatus))]
    /\ UNCHANGED <<apiKey, apiUrl>>

FetchReject(c, kind) ==
    /\ calls[c].pc = "awaitFetch"
    /\ calls' = [calls EXCEPT ![c].pc = "settled",
                              ![c].failure = ForeignError(kind),
                              ![c].outcome = AwaitRejected(ForeignError(kind))]
    /\ UNCHANGED <<apiKey, apiUrl>>

\* the body is decoded: request returns it or throws the error of the status
JsonResolveShared(c, body) ==
    /\ calls[c].pc = "awaitJson"
    /\ \E d \in CallIds :
        /\ calls[d].response.arrived
        /\ calls' = [calls EXCEPT ![c].pc = "settled",
                                  ![c].decoded = TRUE,
                                  ![c].body = body,
                                  ![c].outcome = Classify(calls[d].response.ok,
                                                          calls[d].response.status, body)]
    /\ UNCHANGED <<apiKey, apiUrl>>

JsonResolveListNotFound(c, body) ==
    /\ calls[c].pc = "awaitJson"
    /\ calls' = [calls EXCEPT ![c].pc = "settled",
                              ![c].decoded = TRUE,
                              ![c].body = body,
                              ![c].outcome =
                                  IF calls[c].response.status = 404 /\ calls[c].finalPath = BugsPath
                                  THEN Resolved(body)
                                  ELSE Classify(calls[c].response.ok,
                                                calls[c].response.status, body)]
    /\ UNCHANGED <<apiKey, apiUrl>>

JsonResolveForgetsKey(c, body) ==
    /\ calls[c].pc = "awaitJson"
    /\ calls' = [calls EXCEPT ![c].pc = "settled",
                              ![c].decoded = TRUE,
                              ![c].body = body,
                              ![c].outcome = Classify(calls[c].response.ok,
                                                      calls[c].response.status, body)]
    /\ apiKey' = IF ~calls[c].response.ok /\ calls[c].response.status = 401
                 THEN [apiKey EXCEPT ![calls[c].client] = "k1"]
                 ELSE apiKey
    /\ UNCHANGED apiUrl

JsonResolve(c, body) ==
    /\ calls[c].pc = "awaitJson"
    /\ calls' = [calls EXCEPT ![c].pc = "settled",
                              ![c].decoded = TRUE,
                              ![c].body = body,
                              ![c].outcome = Classify(calls[c].response.ok,
                                                      calls[c].response.status, body)]
    /\ UNCHANGED <<apiKey, apiUrl>>

\* the body is no JSON: the exception of json() leaves request
JsonReject(c) ==
    /\ calls[c].pc = "awaitJson"
    /\ calls' = [calls EXCEPT ![c].pc = "settled",
                              ![c].outcome = AwaitRejected(ForeignError("SyntaxError"))]
    /\ UNCHANGED <<apiKey, apiUrl>>

\* the caller assigns the public field apiKey
SetApiKey(cl, key) ==
    /\ apiKey[cl] # key
    /\ apiKey' = [apiKey EXCEPT ![cl] = key]
    /\ UNCHANGED <<apiUrl, calls>>

\* the caller assigns the public field apiUrl
SetApiUrl(cl, url) ==
    /\ apiUrl[cl] # url
    /\ apiUrl' = [apiUrl EXCEPT ![cl] = url]
    /\ UNCHANGED <<apiKey, calls>>

(***************************************************************************)
(* The main specification: two calls on one client, which may overlap, and  *)
(* every response the transport can deliver.                                *)
(***************************************************************************)
Statuses == {400, 401, 404, 500, 403, 999, NoStatus}

TransportErrors == {"TypeError", "AbortError"}

Next ==
    \/ \E c \in CallIds : GetAllBugs(c, 1, NoOptions)
    \/ \E c \in CallIds : GetBug(c, 1, <<"a">>, NoOptions)
    \/ \E c \in CallIds, ok \in BOOLEAN, status \in Statuses : FetchResolve(c, ok, status)
    \/ \E c \in CallIds, kind \in TransportErrors : FetchReject(c, kind)
    \/ \E c \in CallIds, body \in Bodies : JsonResolve(c, body)
    \/ \E c \in CallIds : JsonReject(c)
    \/ \E key \in Keys : SetApiKey(1, key)

Spec == Init /\ [][Next]_vars

(***************************************************************************)
(* Claims about the outcome of a call, checked under Spec.                  *)
(***************************************************************************)
KnownStatuses == {400, 401, 404, 500}

SpecificKind(status) ==
    CASE status = 400 -> "NookipediaError400"
      [] status = 401 -> "NookipediaError401"
      [] status = 404 -> "NookipediaError404"
      [] status = 500 -> "NookipediaError500"

Decoded(c) == calls[c].pc = "settled" /\ calls[c].decoded

\* a call that has reached the transport
Sent(c) == calls[c].fetches > 0

\* C1: a call whose response has ok = false and a status s among 400, 401, 404
\* and 500, and whose body was decoded, is rejected with the error kind of s,
\* and that error carries the decoded body unchanged and code = s.
C1_SpecificErrorByStatus ==
    \A c \in CallIds :
        (Decoded(c) /\ ~calls[c].response.ok /\ calls[c].response.status \in KnownStatuses)
        => /\ calls[c].outcome.state = "rejected"
           /\ calls[c].outcome.error.kind = SpecificKind(calls[c].response.status)
           /\ calls[c].outcome.error.body = calls[c].body
           /\ calls[c].outcome.error.code = calls[c].response.status

C1_Witness ==
    \E c \in CallIds :
        /\ Decoded(c) /\ ~calls[c].response.ok /\ calls[c].response.status = 400
        /\ calls[c].body = Body("title", "details", Absent)
        /\ calls[c].outcome.error.kind = "NookipediaError400"
        /\ calls[c].outcome.error.body = Body("title", "details", Absent)

\* C2: a call whose response has ok = false and a status that is none of the
\* known ones (403, 999, or no status at all), and whose body was decoded, is
\* rejected with the generic NookipediaError: its title is the fallback title
\* and its code is the status the transport reported.
C2_GenericErrorOtherwise ==
    \A c \in CallIds :
        (Decoded(c) /\ ~calls[c].response.ok /\ calls[c].response.status \notin KnownStatuses)
        => /\ calls[c].outcome.state = "rejected"
           /\ calls[c].outcome.error.kind = "NookipediaError"
           /\ calls[c].outcome.error.body.title = FallbackTitle
           /\ calls[c].outcome.error.message = FallbackTitle
           /\ calls[c].outcome.error.code = calls[c].response.status

C2_Witness ==
    /\ \E c \in CallIds :
        /\ Decoded(c) /\ ~calls[c].response.ok /\ calls[c].response.status = NoStatus
        /\ calls[c].body = Body("a", Absent, Absent)
        /\ calls[c].outcome.error.kind = "NookipediaError"
        /\ calls[c].outcome.error.code = NoStatus
    /\ \E c \in CallIds :
        /\ Decoded(c) /\ ~calls[c].response.ok /\ calls[c].response.status = 999
        /\ calls[c].outcome.error.code = 999

\* C3: a call whose response has ok = true resolves to the decoded body and
\* raises no error, whatever the status of the response.
C3_OkResolvesToBody ==
    \A c \in CallIds :
        (Decoded(c) /\ calls[c].response.ok)
        => /\ calls[c].outcome.state = "resolved"
           /\ calls[c].outcome.value = calls[c].body
           /\ calls[c].outcome.error = NoError

C3_Witness ==
    \E c \in CallIds :
        /\ Decoded(c) /\ calls[c].response.ok /\ calls[c].response.status = 404
        /\ calls[c].body = Body(Absent, Absent, "1")
        /\ calls[c].outcome = Resolved(Body(Absent, Absent, "1"))

\* C12: every error a call is rejected with after a non-ok response whose body
\* was decoded is an instance of NookipediaError (of the class itself or of one
\* of its four subclasses, so a handler testing instanceof NookipediaError
\* catches it), and it has a body (the decoded one or the fallback one) and a
\* code (the status of the response).
C12_EveryErrorIsNookipediaError ==
    \A c \in CallIds :
        (Decoded(c) /\ ~calls[c].response.ok)
        => /\ calls[c].outcome.state = "rejected"
           /\ InstanceOf(calls[c].outcome.error, "NookipediaError")
           /\ calls[c].outcome.error.kind
                \in {"NookipediaError", "NookipediaError400", "NookipediaError401",
                     "NookipediaError404", "NookipediaError500"}
           /\ calls[c].outcome.error.body
                \in {calls[c].body, [EmptyBody EXCEPT !.title = FallbackTitle]}
           /\ calls[c].outcome.error.code = calls[c].response.status

C12_Witness ==
    \E c, d \in CallIds :
        /\ Decoded(c) /\ ~calls[c].response.ok
        /\ calls[c].outcome.error.kind = "NookipediaError500"
        /\ InstanceOf(calls[c].outcome.error, "NookipediaError")
        /\ Decoded(d) /\ ~calls[d].response.ok
        /\ calls[d].outcome.error.kind = "NookipediaError"
        /\ calls[d].outcome.error.code = 403
        /\ InstanceOf(calls[d].outcome.error, "NookipediaError")

\* C14: when the promise of fetch rejects with an exception e, the call is
\* rejected with e itself, which is no NookipediaError, and json() is not
\* called and no body decoded for that call.
C14_TransportFailurePropagates ==
    \A c \in CallIds :
        calls[c].failure # NoError
        => /\ calls[c].pc = "settled"
           /\ calls[c].outcome = Rejected(calls[c].failure)
           /\ ~InstanceOf(calls[c].outcome.error, "NookipediaError")
           /\ calls[c].jsons = 0
           /\ ~calls[c].decoded
           /\ calls[c].response = NoResponse

C14_Witness ==
    \E c, d \in CallIds :
        /\ calls[c].failure = ForeignError("AbortError")
        /\ calls[c].outcome = Rejected(ForeignError("AbortError"))
        /\ calls[d].failure = ForeignError("TypeError")
        /\ calls[d].outcome.error.kind = "TypeError"

\* the value of X-API-KEY the transport was handed for a call
SentKey(c) == HeadersGet(calls[c].sent.headers, "X-API-KEY")

\* C15: a call sends the key the field apiKey of its client holds at the step
\* it is started (so a call started after the caller assigned k2 sends k2),
\* and assigning the field changes nothing of what a call that is already
\* settled has sent.
C15_KeyReadAtEachRequest ==
    [][\A c \in CallIds :
          /\ (~Sent(c) /\ Sent(c)')
                => /\ SentKey(c)' = <<apiKey[calls'[c].client]>>
                   /\ SentKey(c)' = <<apiKey'[calls'[c].client]>>
          /\ (calls[c].pc = "settled" /\ apiKey' # apiKey)
                => calls'[c].sent = calls[c].sent]_vars

C15_Witness ==
    /\ calls[1].pc = "settled" /\ Sent(1) /\ SentKey(1) = <<"k1">>
    /\ apiKey[1] = "k2"
    /\ Sent(2) /\ SentKey(2) = <<"k2">>

\* C17: with calls overlapping on one client, in every order of the answers
\* of the transport and of the decodings, a settled call has the outcome of
\* its own response: its own ok flag, status and decoded body decide between
\* its value and its error, its own transport failure is what it is rejected
\* with, and a step that settles one call leaves every other call as it was.
C17_CallsIndependent ==
    /\ [](\A c \in CallIds :
            /\ Decoded(c)
                  => calls[c].outcome = Classify(calls[c].response.ok,
                                                 calls[c].response.status, calls[c].body)
            /\ calls[c].failure # NoError => calls[c].outcome = Rejected(calls[c].failure))
    /\ [][\A c, d \in CallIds :
            (c # d /\ calls'[c] # calls[c]) => calls'[d] = calls[d]]_vars

C17_Witness ==
    /\ calls[2].overlaps = {1}
    /\ calls[1].client = calls[2].client
    /\ Decoded(1) /\ calls[1].response = Response(FALSE, 401)
    /\ calls[1].body = Body("a", Absent, Absent)
    /\ calls[1].outcome = Rejected(NookipediaError401(Body("a", Absent, Absent)))
    /\ Decoded(2) /\ calls[2].response = Response(TRUE, 500)
    /\ calls[2].outcome = Resolved(Body(Absent, Absent, "1"))

(***************************************************************************)
(* The header specification: one call of getAllBugs on a client built with  *)
(* either key, the caller passing up to MaxHeaders headers of its own,      *)
(* among them the mandatory names in several spellings.  The names a caller *)
(* passes differ from each other beyond letter case (one header collection).*)
(***************************************************************************)
CallerNames == {"Test", "X-Trace", "x-api-key", "X-API-KEY", "Accept-Version", "accept-version"}

CallerValues == {"testValue", "evil"}

HeaderInits ==
    {h \in SeqsUpTo(CallerNames \X CallerValues, MaxHeaders) :
        \A i, j \in 1..Len(h) : i # j => Lower(h[i][1]) # Lower(h[j][1])}

WithHeaders(h) == [query |-> <<>>, fetchOptions |-> [NoFetchOptions EXCEPT !.headers = h]]

InitHeaders ==
    /\ apiKey \in {[cl \in Clients |-> k] : k \in Keys}
    /\ apiUrl = [cl \in Clients |-> DefaultApiUrl]
    /\ calls = [c \in CallIds |-> NewCall]

NextHeaders ==
    \/ calls[1].pc = "not-started" /\ \E h \in HeaderInits : GetAllBugs(1, 1, WithHeaders(h))
    \/ \E ok \in BOOLEAN : FetchResolve(1, ok, 401)
    \/ JsonResolve(1, EmptyBody)

SpecHeaders == InitHeaders /\ [][NextHeaders]_vars

CallerHeaders(c) == calls[c].args.fetchOptions.headers

IsMandatory(name) == Lower(name) \in {Lower("Accept-Version"), Lower("X-API-KEY")}

MandatoryValue(c, name) ==
    IF Lower(name) = Lower("X-API-KEY") THEN apiKey[calls[c].client] ELSE NOOKIPEDIA_API_VERSION

\* C4: in every call the headers handed to the transport have Accept-Version
\* equal to NOOKIPEDIA_API_VERSION and X-API-KEY equal to the apiKey field of
\* the client, and every header the caller passed under another name is there
\* with the value of the caller.
C4_MandatoryAndCallerHeaders ==
    \A c \in CallIds :
        Sent(c) =>
            /\ HeadersGet(calls[c].sent.headers, "Accept-Version") = <<NOOKIPEDIA_API_VERSION>>
            /\ HeadersGet(calls[c].sent.headers, "X-API-KEY") = <<apiKey[calls[c].client]>>
            /\ \A i \in 1..Len(CallerHeaders(c)) :
                  ~IsMandatory(CallerHeaders(c)[i][1])
                  => HeadersGet(calls[c].sent.headers, CallerHeaders(c)[i][1])
                       = <<CallerHeaders(c)[i][2]>>

C4_Witness ==
    \E c \in CallIds :
        /\ Sent(c)
        /\ apiKey[calls[c].client] = "k2"
        /\ CallerHeaders(c) = << <<"Test", "testValue">>, <<"X-Trace", "evil">> >>
        /\ HeadersGet(calls[c].sent.headers, "test") = <<"testValue">>
        /\ HeadersGet(calls[c].sent.headers, "x-api-key") = <<"k2">>

\* C5: when the caller passes a header named Accept-Version or X-API-KEY, in
\* any letter case, the headers handed to the transport hold under that name
\* the value of the library alone: not the value of the caller, and not both.
C5_MandatoryHeadersWin ==
    \A c \in CallIds :
        Sent(c) =>
            \A i \in 1..Len(CallerHeaders(c)) :
                IsMandatory(CallerHeaders(c)[i][1])
                => /\ HeadersGet(calls[c].sent.headers, CallerHeaders(c)[i][1])
                        = <<MandatoryValue(c, CallerHeaders(c)[i][1])>>
                   /\ \A j \in 1..Len(calls[c].sent.headers) :
                        calls[c].sent.headers[j][2] = CallerHeaders(c)[i][2]
                        => calls[c].sent.headers[j][1] # Lower(CallerHeaders(c)[i][1])

C5_Witness ==
    \E c \in CallIds :
        /\ Sent(c)
        /\ CallerHeaders(c) = << <<"x-api-key", "evil">>, <<"accept-version", "evil">> >>
        /\ HeadersGet(calls[c].sent.headers, "X-API-KEY") = <<apiKey[calls[c].client]>>
        /\ HeadersGet(calls[c].sent.headers, "Accept-Version") = <<NOOKIPEDIA_API_VERSION>>

(***************************************************************************)
(* The base URL specification: client 1 is built with a base URL B and      *)
(* client 2 with B followed by "/"; each client makes one call, getAllBugs  *)
(* or getBug.  B is an origin followed by up to MaxBaseLen characters of    *)
(* path and query.                                                          *)
\* a base URL less the "/" it may end with
WithoutTrailingSlash(b) ==
    IF b # <<>> /\ b[Len(b)] = "/" THEN SubSeq(b, 1, Len(b) - 1) ELSE b

\* a base URL that is an origin followed by a path with no empty segment
PlainBase(b) == ~HasChar(b, "?") /\ ~Contains(b, <<"/", "/">>)

\* C18 as claimed: for every base URL, one with a path included, the URL
\* handed to the transport is the base URL followed by the resolved path (the
\* calls here have no query and a path that needs no escaping).
C18_UrlIsBaseThenPath ==
    \A c \in CallIds :
        ( /\ Sent(c)
          /\ PlainBase(apiUrl[calls[c].client])
          /\ calls[c].finalPath \in {BugsPath, <<"/", "n", "h", "/", "b", "u", "g", "s", "/", "a">>} )
        => calls[c].sent.url = WithoutTrailingSlash(apiUrl[calls[c].client]) \o calls[c].finalPath

(***************************************************************************)
BaseChars == {"/", "v", "?"}

BaseRests ==
    {r \in SeqsUpTo(BaseChars, MaxBaseLen) : r = <<>> \/ Head(r) \in {"/", "?"}}

Bases == {<<"https://h">> \o r : r \in BaseRests}

InitUrl ==
    /\ apiKey = [cl \in Clients |-> "k1"]
    /\ \E b \in Bases : apiUrl = [cl \in Clients |-> IF cl = 1 THEN b ELSE b \o <<"/">>]
    /\ calls = [c \in CallIds |-> NewCall]

NextUrl ==
    \/ \E c \in CallIds : GetAllBugs(c, c, NoOptions)
    \/ \E c \in CallIds, bug \in {<<"a">>, <<"a", " ", "b">>} : GetBug(c, c, bug, NoOptions)
    \/ \E c \in CallIds : FetchResolve(c, TRUE, 200)
    \/ \E c \in CallIds : JsonResolve(c, EmptyBody)

SpecUrl == InitUrl /\ [][NextUrl]_vars

\* C6: a client built with base URL B and a client built with B followed by
\* "/" hand the same URL to the transport for the same call.
C6_TrailingSlashSameUrl ==
    \A c, d \in CallIds :
        ( /\ Sent(c) /\ Sent(d)
          /\ calls[c].args = calls[d].args
          /\ apiUrl[calls[d].client] = apiUrl[calls[c].client] \o <<"/">> )
        => calls[c].sent.url = calls[d].sent.url

C6_Witness ==
    \E c, d \in CallIds :
        /\ Sent(c) /\ Sent(d)
        /\ calls[c].args = calls[d].args
        /\ apiUrl[calls[c].client] = <<"https://h", "/", "v">>
        /\ apiUrl[calls[d].client] = <<"https://h", "/", "v", "/">>
        /\ calls[c].sent.url = <<"https://h">> \o BugsPath
        /\ calls[d].sent.url = <<"https://h">> \o BugsPath

(***************************************************************************)
(* The path specification: one call for a single resource, getBug(v) or     *)
(* request with the template /nh/fish/{fish}, v any text of up to MaxLen    *)
(* characters, among them the space, the dollar, the ampersand, the braces  *)
(* and the question mark.                                                   *)
(***************************************************************************)
ValueChars == {"a", " ", "$", "&", "{", "}", "?"}

Values == SeqsUpTo(ValueChars, MaxLen)

FishArgs(v) ==
    [path |-> FishPath, replacePath |-> << <<FishKey, v>> >>, query |-> <<>>,
     fetchOptions |-> NoFetchOptions]

NextPath ==
    \/ calls[1].pc = "not-started" /\ \E v \in Values : GetBug(1, 1, v, NoOptions)
    \/ calls[1].pc = "not-started" /\ \E v \in Values : Request(1, 1, FishArgs(v))
    \/ FetchResolve(1, TRUE, 200)
    \/ JsonResolve(1, EmptyBody)

SpecPath == Init /\ [][NextPath]_vars

Started(c) == calls[c].pc # "not-started"

\* the value a call passes for its single placeholder
ValueOf(c) == calls[c].args.replacePath[1][2]

SinglePlaceholder(c) == Started(c) /\ Len(calls[c].args.replacePath) = 1

NoBrace(s) == ~HasChar(s, "{") /\ ~HasChar(s, "}")

\* C7: for a path template with a single placeholder and a replacement value v
\* without a brace, the path the substitution step of request produces
\* contains v as given and contains neither brace.  (Violated: replace expands
\* the dollar patterns of v.)
C7_SubstitutionVerbatim ==
    \A c \in CallIds :
        (SinglePlaceholder(c) /\ NoBrace(ValueOf(c)))
        => /\ Contains(calls[c].finalPath, ValueOf(c))
           /\ NoBrace(calls[c].finalPath)

RECURSIVE SpaceEscaped(_)
SpaceEscaped(v) ==
    IF v = <<>> THEN <<>>
    ELSE (IF Head(v) = " " THEN <<"%", "2", "0">> ELSE <<Head(v)>>) \o SpaceEscaped(Tail(v))

IsGetBug(c) == Sent(c) /\ calls[c].args.path = BugPath /\ calls[c].args.query = <<>>

LettersAndSpaces(v) == \A i \in 1..Len(v) : v[i] \in {"a", " "}

\* C8 as claimed: for a single-resource call getBug(v) without query
\* parameters, the URL handed to the transport ends with v exactly as given
\* and contains no brace.  (Violated: the URL parser escapes v.)
C8_UrlEndsWithRawValue ==
    \A c \in CallIds :
        IsGetBug(c) => EndsWith(calls[c].sent.url, ValueOf(c)) /\ NoBrace(calls[c].sent.url)

\* C8 as amended: for getBug(v) without query parameters, v made of letters,
\* digits and spaces and not ending with a space, the URL handed to the
\* transport ends with v with every space written %20 and contains no brace.
C8_UrlEndsWithEscapedValue ==
    \A c \in CallIds :
        ( /\ IsGetBug(c)
          /\ LettersAndSpaces(ValueOf(c))
          /\ (ValueOf(c) = <<>> \/ ValueOf(c)[Len(ValueOf(c))] # " ") )
        => /\ EndsWith(calls[c].sent.url, SpaceEscaped(ValueOf(c)))
           /\ NoBrace(calls[c].sent.url)

C8_Witness ==
    \E c \in CallIds :
        /\ IsGetBug(c)
        /\ ValueOf(c) = <<" ", "a">>
        /\ calls[c].sent.url = DefaultApiUrl \o Tail(BugsPath) \o <<"/", "%", "2", "0", "a">>

(***************************************************************************)
(* The query specification: one call of getAllBugs with a query of up to    *)
(* two entries, each a string, a number or a list of up to MaxList of them. *)
(***************************************************************************)
QueryKeys == {<<"k">>, <<"m">>}

Str(s) == [t |-> "str", s |-> s]

Num(n) == [t |-> "num", n |-> n]

List(items) == [t |-> "list", items |-> items]

Scalars == {Str(<<"a">>), Str(<<"b", " ", "&">>), Num(7), Num(20)}

QueryValues == Scalars \cup {List(items) : items \in SeqsUpTo(Scalars, MaxList)}

Queries ==
    {q \in SeqsUpTo(QueryKeys \X QueryValues, Cardinality(QueryKeys)) :
        \A i, j \in 1..Len(q) : i # j => q[i][1] # q[j][1]}

WithQueryOnly(q) == [query |-> q, fetchOptions |-> NoFetchOptions]

NextQuery ==
    \/ calls[1].pc = "not-started" /\ \E q \in Queries : GetAllBugs(1, 1, WithQueryOnly(q))
    \/ FetchResolve(1, TRUE, 200)
    \/ JsonResolve(1, EmptyBody)

SpecQuery == Init /\ [][NextQuery]_vars

\* the text a scalar is expected to have in the URL
Text(v) ==
    CASE v.t = "str" -> v.s
      [] v.t = "num" /\ v.n = 7  -> <<"7">>
      [] v.t = "num" /\ v.n = 20 -> <<"2", "0">>

\* the query entries a server reads from the URL handed to the transport
SentPairs(c) == FormParse(AfterQuery(calls[c].sent.url))

QueryOfCall(c) == calls[c].args.query

\* C9: for a query that holds a list under key k, the URL handed to the
\* transport has one entry named k for each element of the list, in the order
\* of the list, none dropped and none overwritten.
C9_ListEntriesRepeatKey ==
    \A c \in CallIds :
        Sent(c) =>
            LET pairs == SentPairs(c)
                query == QueryOfCall(c)
            IN  \A i \in 1..Len(query) :
                    IsArray(query[i][2])
                    => ValuesNamed(pairs, query[i][1])
                         = [j \in 1..Len(query[i][2].items) |-> Text(query[i][2].items[j])]

C9_Witness ==
    \E c \in CallIds :
        /\ Sent(c)
        /\ QueryOfCall(c) = << <<<<"k">>, List(<<Str(<<"b", " ", "&">>), Num(20)>>)>> >>
        /\ AfterQuery(calls[c].sent.url)
             = <<"k", "=", "b", "+", "%", "2", "6", "&", "k", "=", "2", "0">>

\* C10: every scalar entry (a string or a number) under key k of a query is in
\* the URL handed to the transport as exactly one entry named k, its value
\* the text of the scalar, and the entries of the URL follow the order of the
\* entries of the query.
C10_ScalarEntriesInOrder ==
    \A c \in CallIds :
        Sent(c) =>
            LET pairs == SentPairs(c)
                query == QueryOfCall(c)
            IN  /\ \A i \in 1..Len(query) :
                      ~IsArray(query[i][2])
                      => ValuesNamed(pairs, query[i][1]) = <<Text(query[i][2])>>
                /\ \A i, j \in 1..Len(query) :
                      i < j =>
                        \A a, b \in 1..Len(pairs) :
                            (pairs[a][1] = query[i][1] /\ pairs[b][1] = query[j][1]) => a < b

C10_Witness ==
    \E c \in CallIds :
        /\ Sent(c)
        /\ QueryOfCall(c) = << <<<<"m">>, Num(20)>>, <<<<"k">>, Str(<<"b", " ", "&">>)>> >>
        /\ AfterQuery(calls[c].sent.url)
             = <<"m", "=", "2", "0", "&", "k", "=", "b", "+", "%", "2", "6">>

(***************************************************************************)
(* The transport option specification: one call, getAllBugs or getBug, the  *)
(* caller passing fetchOptions with any of a method, a body, an abort       *)
(* signal and headers of its own; the transport answers or fails (the       *)
(* signal aborting the request).                                            *)
(***************************************************************************)
OptionMethods == {"absent", "POST", "GET"}

OptionBodies == {"absent", "payload"}

OptionSignals == {"absent", "signal1", "signal2"}

OptionHeaders ==
    { <<>>,
      << <<"Test", "testValue">> >>,
      << <<"X-API-KEY", "evil">> >>,
      << <<"accept-version", NOOKIPEDIA_API_VERSION>>, <<"x-api-key", "k1">> >> }

FetchOptions ==
    [headers : OptionHeaders, method : OptionMethods, body : OptionBodies,
     signal : OptionSignals]

WithFetchOptions(fo) == [query |-> <<>>, fetchOptions |-> fo]

NextOptions ==
    \/ calls[1].pc = "not-started" /\ \E fo \in FetchOptions : GetAllBugs(1, 1, WithFetchOptions(fo))
    \/ calls[1].pc = "not-started" /\ \E fo \in FetchOptions : GetBug(1, 1, <<"a">>, WithFetchOptions(fo))
    \/ \E ok \in BOOLEAN : FetchResolve(1, ok, 404)
    \/ FetchReject(1, "AbortError")
    \/ JsonResolve(1, EmptyBody)

SpecOptions == Init /\ [][NextOptions]_vars

\* C11: in every call the method, the body and the abort signal handed to
\* the transport are the ones of the fetchOptions of the caller (absent when
\* the caller gave none), and the headers handed to the transport are the
\* composed headers: whenever the headers of the caller are not already the
\* composed collection, the transport does not get the headers of the caller.
C11_OtherOptionsPassThrough ==
    \A c \in CallIds :
        Sent(c) =>
            LET fo       == calls[c].args.fetchOptions
                composed == ComposeHeaders(fo.headers, apiKey[calls[c].client])
            IN  /\ calls[c].sent.method = fo.method
                /\ calls[c].sent.body = fo.body
                /\ calls[c].sent.signal = fo.signal
                /\ calls[c].sent.headers = composed
                /\ fo.headers # composed => calls[c].sent.headers # fo.headers

C11_Witness ==
    \E c \in CallIds :
        /\ Sent(c)
        /\ calls[c].args.fetchOptions
             = [headers |-> << <<"X-API-KEY", "evil">> >>, method |-> "POST",
                body |-> "payload", signal |-> "signal2"]
        /\ calls[c].sent.method = "POST"
        /\ calls[c].sent.body = "payload"
        /\ calls[c].sent.signal = "signal2"
        /\ HeadersGet(calls[c].sent.headers, "X-API-KEY") = <<"k1">>

(***************************************************************************)
(* The response body specification: one call, getAllBugs or getBug, and     *)
(* every answer of the transport: any ok flag and status, and a body that   *)
(* is a JSON object, the JSON value null, or no JSON at all (json()         *)
(* rejects).                                                                *)
(***************************************************************************)
JsonValues == Bodies \cup {NullBody}

NextBodies ==
    \/ GetAllBugs(1, 1, NoOptions)
    \/ GetBug(1, 1, <<"a">>, NoOptions)
    \/ \E ok \in BOOLEAN, status \in Statuses : FetchResolve(1, ok, status)
    \/ \E kind \in TransportErrors : FetchReject(1, kind)
    \/ \E body \in JsonValues : JsonResolve(1, body)
    \/ JsonReject(1)

SpecBodies == Init /\ [][NextBodies]_vars

\* the transport has delivered a response for the call
Responded(c) == calls[c].response.arrived

\* C13: a call whose transport response has ok = false settles, whatever the
\* status and the body of the response, as a rejection with an instance of
\* NookipediaError: it does not resolve, and it is not rejected with an
\* exception of another class.
C13_NonOkAlwaysTypedError ==
    \A c \in CallIds :
        (calls[c].pc = "settled" /\ Responded(c) /\ ~calls[c].response.ok)
        => /\ calls[c].outcome.state = "rejected"
           /\ InstanceOf(calls[c].outcome.error, "NookipediaError")

(***************************************************************************)
(* The request building specification: client 1 is built with the default   *)
(* base URL and client 2 with a base URL that new URL cannot parse; each     *)
(* of two calls, which may overlap, is made on either client.               *)
(***************************************************************************)
UnparsableBase == <<"n", "o">>

InitBuild ==
    /\ apiKey = [cl \in Clients |-> "k1"]
    /\ apiUrl = [cl \in Clients |-> IF cl = 1 THEN DefaultApiUrl ELSE UnparsableBase]
    /\ calls = [c \in CallIds |-> NewCall]

NextBuild ==
    \/ \E c \in CallIds, cl \in Clients : GetAllBugs(c, cl, NoOptions)
    \/ \E c \in CallIds, cl \in Clients : GetBug(c, cl, <<"a">>, NoOptions)
    \/ \E c \in CallIds, ok \in BOOLEAN, status \in {401, 999} : FetchResolve(c, ok, status)
    \/ \E c \in CallIds, kind \in TransportErrors : FetchReject(c, kind)
    \/ \E c \in CallIds, body \in {EmptyBody, Body("a", Absent, Absent)} : JsonResolve(c, body)
    \/ \E c \in CallIds : JsonReject(c)

SpecBuild == InitBuild /\ [][NextBuild]_vars

\* the URL of the call can be built: the base URL of its client parses
Buildable(c) == ParseBase(apiUrl[calls[c].client]).ok

Phase(c) ==
    IF calls[c].pc \in {"awaitFetch", "awaitJson"} THEN "in-flight" ELSE calls[c].pc

\* a settled call has a value or an error, not both; another call has neither
SettledOnce(c) ==
    /\ calls[c].pc = "settled" <=> calls[c].outcome.state \in {"resolved", "rejected"}
    /\ calls[c].pc # "settled" => calls[c].outcome = Pending
    /\ calls[c].outcome.state = "resolved" => calls[c].outcome.error = NoError
    /\ calls[c].outcome.state = "rejected"
          => calls[c].outcome.error # NoError /\ calls[c].outcome.value = EmptyBody

\* a settled call takes no step, and no step of a call writes a field of the client
OneShot(c) ==
    /\ Phase(c) = "in-flight" => Phase(c)' \in {"in-flight", "settled"}
    /\ Phase(c) = "settled" => calls'[c] = calls[c]
    /\ calls'[c] # calls[c] => (apiKey' = apiKey /\ apiUrl' = apiUrl)

Suspensions(c) == calls[c].fetches + calls[c].jsons

\* C20 as claimed: every call suspends exactly twice.
C20_SuspendsExactlyTwice ==
    \A c \in CallIds : calls[c].pc = "settled" => Suspensions(c) = 2

\* C20, amended: a call whose transport delivers a response suspends exactly
\* twice, first on the transport and then on the decoding of the body; the
\* decoding is started when the response has arrived and not before, once, for
\* an ok and for a non-ok response alike, and while it is awaited nothing is
\* decided about the outcome.  A call whose transport fails suspends once, and
\* a call whose URL cannot be built does not suspend.
C20_SuspendsOnTransportThenDecoding ==
    \A c \in CallIds :
        /\ calls[c].jsons <= 1
        /\ calls[c].jsons = 1 <=> Responded(c)
        /\ Responded(c) => calls[c].fetches = 1
        /\ calls[c].pc = "awaitFetch" => Suspensions(c) = 1 /\ ~Responded(c)
        /\ calls[c].pc = "awaitJson"
              => Suspensions(c) = 2 /\ Responded(c) /\ calls[c].outcome = Pending
        /\ (calls[c].pc = "settled" /\ Responded(c)) => Suspensions(c) = 2
        /\ (calls[c].pc = "settled" /\ calls[c].failure # NoError) => Suspensions(c) = 1
        /\ (calls[c].pc = "settled" /\ ~Buildable(c)) => Suspensions(c) = 0

C20_Witness ==
    /\ calls[1].pc = "settled" /\ calls[1].response = Response(TRUE, 401)
    /\ Suspensions(1) = 2
    /\ calls[2].pc = "awaitJson" /\ calls[2].response = Response(FALSE, 999)
    /\ calls[2].jsons = 1

(***************************************************************************)
(* The classification specification: call 1 is getAllBugs() on a client     *)
(* with the default base URL and key k1, call 2 is getBug with a query,      *)
(* caller headers, a method and a signal on a client with another base URL   *)
(* and key k2; the transport answers each with any ok flag, status and       *)
(* body.                                                                     *)
(***************************************************************************)
OtherBase == <<"https://h", "/", "v">>

OtherOptions ==
    [query |-> << <<<<"k">>, [t |-> "str", s |-> <<"a">>]>> >>,
     fetchOptions |-> [headers |-> << <<"Test", "testValue">> >>, method |-> "POST",
                       body |-> "payload", signal |-> "signal1"]]

InitPure ==
    /\ apiKey = [cl \in Clients |-> IF cl = 1 THEN "k1" ELSE "k2"]
    /\ apiUrl = [cl \in Clients |-> IF cl = 1 THEN DefaultApiUrl ELSE OtherBase]
    /\ calls = [c \in CallIds |-> NewCall]

NextPure ==
    \/ GetAllBugs(1, 1, NoOptions)
    \/ GetBug(2, 2, <<"a">>, OtherOptions)
    \/ \E c \in CallIds, ok \in BOOLEAN, status \in {404, 500, 999} : FetchResolve(c, ok, status)
    \/ \E c \in CallIds, body \in JsonValues : JsonResolve(c, body)

SpecPure == InitPure /\ [][NextPure]_vars

\* C21: two calls whose responses have the same ok flag and status and whose
\* bodies decode to the same value settle the same way, with the same value or
\* with an error of the same kind, body, code and message, whatever key, base
\* URL, path, query, caller headers and transport options each was made with.
C21_OutcomeFromTripleAlone ==
    \A c, d \in CallIds :
        ( /\ Decoded(c) /\ Decoded(d)
          /\ calls[c].response = calls[d].response
          /\ calls[c].body = calls[d].body )
        => calls[c].outcome = calls[d].outcome

C21_Witness ==
    /\ Decoded(1) /\ Decoded(2)
    /\ calls[1].response = Response(FALSE, 404) /\ calls[2].response = Response(FALSE, 404)
    /\ calls[1].body = Body("title", "details", Absent) /\ calls[2].body = calls[1].body
    /\ calls[1].sent.url # calls[2].sent.url
    /\ SentKey(1) # SentKey(2)
    /\ calls[1].sent.method # calls[2].sent.method
    /\ calls[1].outcome = Rejected(NookipediaError404(Body("title", "details", Absent)))
    /\ calls[2].outcome = calls[1].outcome

(***************************************************************************)
(* The missing placeholder specification: one call of request with the path *)
(* template of getBug or getFish and a placeholder mapping that is absent,   *)
(* or has the entry of the template, or has only an entry under the name of  *)
(* the other template.                                                       *)
(***************************************************************************)
Templates == {BugPath, FishPath}

TemplateKey(path) == IF path = BugPath THEN BugKey ELSE FishKey

TemplateArgs(path, mapping) ==
    [path |-> path, replacePath |-> mapping, query |-> <<>>, fetchOptions |-> NoFetchOptions]

NextMissing ==
    \/ calls[1].pc = "not-started"
         /\ \E path \in Templates,
                  mapping \in {<<>>} \cup {<< <<key, v>> >> : key \in {BugKey, FishKey}, v \in Values} :
               Request(1, 1, TemplateArgs(path, mapping))
    \/ \E ok \in BOOLEAN : FetchResolve(1, ok, 404)
    \/ JsonResolve(1, EmptyBody)

SpecMissing == Init /\ [][NextMissing]_vars

\* the mapping of the call has no entry for the placeholder of its template
LacksEntry(c) ==
    /\ Started(c)
    /\ calls[c].args.path \in Templates
    /\ \A i \in 1..Len(calls[c].args.replacePath) :
          calls[c].args.replacePath[i][1] # TemplateKey(calls[c].args.path)

\* C22: a call whose placeholder mapping has no entry for the placeholder of
\* its path template raises no failure for that: the resolved path is the
\* template, the placeholder in it with its braces, and the request is handed
\* to the transport (whose URL has the braces percent-encoded).
C22_MissingPlaceholderStays ==
    \A c \in CallIds :
        LacksEntry(c)
        => /\ calls[c].finalPath = calls[c].args.path
           /\ Contains(calls[c].finalPath, Placeholder(TemplateKey(calls[c].args.path)))
           /\ calls[c].fetches = 1
           /\ calls[c].pc = "settled" => Responded(c)
           /\ EndsWith(calls[c].sent.url,
                       <<"%", "7", "B">> \o TemplateKey(calls[c].args.path) \o <<"%", "7", "D">>)

C22_Witness ==
    /\ LacksEntry(1)
    /\ calls[1].args.path = BugPath
    /\ calls[1].args.replacePath = << <<FishKey, <<"a">>>> >>
    /\ calls[1].finalPath = BugPath
    /\ calls[1].pc = "settled" /\ calls[1].outcome = Resolved(EmptyBody)

(***************************************************************************)
(* The field specification: two calls on one client, which may overlap,     *)
(* while the caller assigns the fields apiKey and apiUrl of the client at    *)
(* any moment: before, between and during the calls.                         *)
(***************************************************************************)
NextFields ==
    \/ \E c \in CallIds : GetAllBugs(c, 1, NoOptions)
    \/ \E c \in CallIds : GetBug(c, 1, <<"a">>, NoOptions)
    \/ \E c \in CallIds, ok \in BOOLEAN, status \in {401, 999} : FetchResolve(c, ok, status)
    \/ \E c \in CallIds : FetchReject(c, "TypeError")
    \/ \E c \in CallIds, body \in {EmptyBody, Body("a", Absent, Absent)} : JsonResolve(c, body)
    \/ \E c \in CallIds : JsonReject(c)
    \/ \E key \in Keys : SetApiKey(1, key)
    \/ \E url \in {DefaultApiUrl, OtherBase} : SetApiUrl(1, url)

SpecFields == Init /\ [][NextFields]_vars

\* C23: no step of a call, whatever it does to the call, changes the fields
\* apiKey and apiUrl of a client: they change only when the caller assigns
\* them, so after any calls they hold what the constructor or the caller
\* last put there.
C23_CallsLeaveFieldsAlone ==
    [][calls' # calls => (apiKey' = apiKey /\ apiUrl' = apiUrl)]_vars

C23_Witness ==
    /\ apiKey[1] = "k2" /\ apiUrl[1] = OtherBase
    /\ Decoded(1) /\ calls[1].outcome.state = "rejected" /\ calls[1].response.status = 401
    /\ calls[2].pc = "settled" /\ calls[2].failure # NoError
    /\ SentKey(2) = <<"k2">> /\ Head(calls[2].sent.url) = "https://h"

\* C24: a call that is suspended on the transport leaves that state only at
\* a step at which the transport delivers its response or fails (an abort of
\* the signal of the caller is such a failure), and a call suspended on the
\* decoding only at a step at which json() delivers or fails: no step of the
\* engine alone, such as a timeout, settles a call, so a call whose transport
\* never answers stays in flight.
C24_NoEngineInitiatedSettle ==
    [][\A c \in CallIds :
          /\ (calls[c].pc = "awaitFetch" /\ calls'[c] # calls[c])
                => \/ calls'[c].pc = "awaitJson" /\ Responded(c)' /\ ~Responded(c)
                   \/ calls'[c].pc = "settled" /\ calls'[c].failure # NoError
                        /\ calls'[c].outcome = Rejected(calls'[c].failure)
          /\ (calls[c].pc = "awaitJson" /\ calls'[c] # calls[c])
                => /\ calls'[c].pc = "settled"
                   /\ \/ calls'[c].decoded
                      \/ calls'[c].outcome = Rejected(ForeignError("SyntaxError"))]_vars

C24_Witness ==
    /\ calls[1].pc = "awaitFetch" /\ calls[1].outcome = Pending
    /\ calls[2].overlaps = {1}
    /\ calls[2].pc = "settled" /\ calls[2].failure = ForeignError("AbortError")
    /\ apiKey[1] = "k2"

\* C26: what a call hands to the transport is built from the values the
\* fields apiKey and apiUrl hold at the step the call is invoked, and is
\* handed over at that step: assigning either field while the call is in
\* flight changes neither the URL nor the X-API-KEY the transport got for it.
C26_FieldsReadAtInvocation ==
    [][\A c \in CallIds :
          /\ (~Sent(c) /\ Sent(c)')
                => /\ SentKey(c)' = <<apiKey[calls'[c].client]>>
                   /\ calls'[c].sent.url
                        = Href(NewURL(calls'[c].finalPath, apiUrl[calls'[c].client]))
          /\ Sent(c) => calls'[c].sent = calls[c].sent]_vars

C26_Witness ==
    /\ calls[1].pc = "awaitFetch" /\ calls[2].pc = "awaitJson"
    /\ calls[2].overlaps = {1}
    /\ SentKey(1) = <<"k1">> /\ Head(calls[1].sent.url) = "https://api.nookipedia.com"
    /\ SentKey(2) = <<"k2">> /\ Head(calls[2].sent.url) = "https://h"
    /\ apiKey[1] = "k1" /\ apiUrl[1] = DefaultApiUrl

(***************************************************************************)
(* The Names and ByMonth methods: request with the path of the list and the *)
(* query of the caller merged with excludedetails: 'true' and with month.   *)
(***************************************************************************)
\* getAllBugsByMonth(month, options)
GetAllBugsByMonth(c, cl, month, options) ==
    RequestFrom(c, cl, [path |-> BugsPath, replacePath |-> <<>>,
                        query |-> MergeEntry(options.query, MonthKey, Str(month)),
                        fetchOptions |-> options.fetchOptions],
                "getAllBugsByMonth", GivenWith(month, options))

\* getAllBugNames(options)
GetAllBugNames(c, cl, options) ==
    RequestFrom(c, cl, [path |-> BugsPath, replacePath |-> <<>>,
                        query |-> MergeEntry(options.query, ExcludeDetailsKey, Str(TrueText)),
                        fetchOptions |-> options.fetchOptions],
                "getAllBugNames", GivenOptions(options))

\* getAllBugNamesByMonth(month, options)
GetAllBugNamesByMonth(c, cl, month, options) ==
    RequestFrom(c, cl, [path |-> BugsPath, replacePath |-> <<>>,
                        query |-> MergeEntry(MergeEntry(options.query, ExcludeDetailsKey,
                                                        Str(TrueText)),
                                             MonthKey, Str(month)),
                        fetchOptions |-> options.fetchOptions],
                "getAllBugNamesByMonth", GivenWith(month, options))

\* getAllRecipeNames(options)
GetAllRecipeNames(c, cl, options) ==
    RequestFrom(c, cl, [path |-> RecipesPath, replacePath |-> <<>>,
                        query |-> MergeEntry(options.query, ExcludeDetailsKey, Str(TrueText)),
                        fetchOptions |-> options.fetchOptions],
                "getAllRecipeNames", GivenOptions(options))

(***************************************************************************)
(* The method specification: one call of a Names or ByMonth method, or of    *)
(* request itself, the caller passing a month and options whose query has    *)
(* up to two entries, among them entries named month and excludedetails,     *)
(* and fetchOptions of its own or none.                                      *)
(***************************************************************************)
Months == {<<"1">>, <<"j", "a", "n">>}

CallerQueries ==
    LET CallerKeys == {<<"k">>, MonthKey, ExcludeDetailsKey}
        CallerEntries ==
            {Str(<<"a">>), Str(<<"f", "a", "l", "s", "e">>), List(<<Str(<<"a">>), Num(7)>>)}
    IN {q \in SeqsUpTo(CallerKeys \X CallerEntries, 2) :
          \A i, j \in 1..Len(q) : i # j => q[i][1] # q[j][1]}

CallerOptions ==
    [query : CallerQueries, fetchOptions : {NoFetchOptions, OtherOptions.fetchOptions}]

NextNames ==
    \/ calls[1].pc = "not-started"
         /\ \E month \in Months, o \in CallerOptions : GetAllBugsByMonth(1, 1, month, o)
    \/ calls[1].pc = "not-started" /\ \E o \in CallerOptions : GetAllBugNames(1, 1, o)
    \/ calls[1].pc = "not-started"
         /\ \E month \in Months, o \in CallerOptions : GetAllBugNamesByMonth(1, 1, month, o)
    \/ calls[1].pc = "not-started" /\ \E o \in CallerOptions : GetAllRecipeNames(1, 1, o)
    \/ calls[1].pc = "not-started"
         /\ \E o \in CallerOptions :
               Request(1, 1, [path |-> BugPath, replacePath |-> << <<BugKey, <<"a">>>> >>,
                              query |-> o.query, fetchOptions |-> o.fetchOptions])
    \/ \E ok \in BOOLEAN : FetchResolve(1, ok, 404)
    \/ \E body \in {EmptyBody, Body(Absent, Absent, "1")} : JsonResolve(1, body)

SpecNames == Init /\ [][NextNames]_vars

NamesMethods == {"getAllBugNames", "getAllBugNamesByMonth", "getAllRecipeNames"}

ByMonthMethods == {"getAllBugsByMonth", "getAllBugNamesByMonth"}

\* the query keys the method of the call writes
Overridden(c) ==
    (IF calls[c].method \in NamesMethods THEN {ExcludeDetailsKey} ELSE {})
    \cup (IF calls[c].method \in ByMonthMethods THEN {MonthKey} ELSE {})

\* the texts a query value is expected to have in the URL, in order
Texts(v) == IF IsArray(v) THEN [j \in 1..Len(v.items) |-> Text(v.items[j])] ELSE <<Text(v)>>

\* C25: a Names method sends excludedetails = true, once, and a ByMonth method
\* sends month = its month argument, once, whatever the caller put under
\* those names in options.query; every other query entry of the caller is
\* sent with the values of the caller, the method, body, signal and headers
\* of the fetchOptions of the caller are handed to the transport, and an ok
\* response resolves to the decoded body as it is.
C25_NamesAndByMonthOverride ==
    \A c \in CallIds :
        (Sent(c) /\ calls[c].method \in NamesMethods \cup ByMonthMethods) =>
            LET pairs == SentPairs(c)
                given == calls[c].given
            IN  /\ calls[c].method \in NamesMethods
                      => ValuesNamed(pairs, ExcludeDetailsKey) = <<TrueText>>
                /\ calls[c].method \in ByMonthMethods
                      => ValuesNamed(pairs, MonthKey) = <<given.value>>
                /\ \A i \in 1..Len(given.query) :
                      given.query[i][1] \notin Overridden(c)
                      => ValuesNamed(pairs, given.query[i][1]) = Texts(given.query[i][2])
                /\ calls[c].sent.method = given.fetchOptions.method
                /\ calls[c].sent.body = given.fetchOptions.body
                /\ calls[c].sent.signal = given.fetchOptions.signal
                /\ \A i \in 1..Len(given.fetchOptions.headers) :
                      HeadersGet(calls[c].sent.headers, given.fetchOptions.headers[i][1])
                        = <<given.fetchOptions.headers[i][2]>>
                /\ (Decoded(c) /\ calls[c].response.ok)
                      => calls[c].outcome = Resolved(calls[c].body)

C25_Witness ==
    /\ calls[1].method = "getAllBugNamesByMonth"
    /\ calls[1].given.value = <<"j", "a", "n">>
    /\ calls[1].given.query
         = << <<MonthKey, List(<<Str(<<"a">>), Num(7)>>)>>,
              <<ExcludeDetailsKey, Str(<<"f", "a", "l", "s", "e">>)>> >>
    /\ calls[1].given.fetchOptions.method = "POST"
    /\ AfterQuery(calls[1].sent.url)
         = MonthKey \o <<"=", "j", "a", "n", "&">> \o ExcludeDetailsKey \o <<"=">> \o TrueText
    /\ Decoded(1) /\ calls[1].outcome = Resolved(Body(Absent, Absent, "1"))

\* C27: the objects the caller passed to request or to a method are, after
\* the call has built and handed over its request and at every later moment,
\* as they were passed: the placeholder mapping, the query (which does not
\* gain excludedetails or month) and the fetchOptions, whose headers do not
\* gain Accept-Version or X-API-KEY.
C27_InputsUnchanged ==
    \A c \in CallIds :
        Started(c)
        => /\ calls[c].inputs = calls[c].given
           /\ \A name \in {"Accept-Version", "X-API-KEY"} :
                 HeadersGet(NewHeaders(calls[c].inputs.fetchOptions.headers), name)
                   = HeadersGet(NewHeaders(calls[c].given.fetchOptions.headers), name)

C27_Witness ==
    /\ calls[1].pc = "settled"
    /\ calls[1].method = "getAllBugNames"
    /\ calls[1].given.query = << <<<<"k">>, Str(<<"a">>)>> >>
    /\ calls[1].args.query
         = << <<<<"k">>, Str(<<"a">>)>>, <<ExcludeDetailsKey, Str(TrueText)>> >>
    /\ calls[1].inputs.query = << <<<<"k">>, Str(<<"a">>)>> >>
    /\ calls[1].inputs.fetchOptions.headers = << <<"Test", "testValue">> >>
    /\ HeadersGet(calls[1].sent.headers, "X-API-KEY") = <<"k1">>

\* C28: when the response is not ok and its status is none of 400, 401, 404
\* and 500, the body of the error is exactly {title: "Failed to fetch
\* Nookipedia API"}: whatever the server sent as title, details or any other
\* member, or null, is not in the error.
C28_GenericErrorDiscardsBody ==
    \A c \in CallIds :
        (Decoded(c) /\ ~calls[c].response.ok /\ calls[c].response.status \notin KnownStatuses)
        => /\ calls[c].outcome.state = "rejected"
           /\ calls[c].outcome.error.kind = "NookipediaError"
           /\ calls[c].outcome.error.body = Body(FallbackTitle, Absent, Absent)
           /\ calls[c].outcome.error.message = FallbackTitle

C28_Witness ==
    /\ Decoded(1)
    /\ ~calls[1].response.ok
    /\ calls[1].response.status = 403
    /\ calls[1].body = Body("title", "details", Absent)
    /\ calls[1].outcome.error.body = Body(FallbackTitle, Absent, Absent)
    /\ calls[1].outcome.error.code = 403

(***************************************************************************)
(* The failing-build specification: two clients, the second with a base     *)
(* URL that does not parse, and calls of request whose query may hold       *)
(* undefined or null, as the value of an entry or as an item of a list.      *)
(***************************************************************************)
Undefined == [t |-> "undefined"]

Null == [t |-> "null"]

FailQueries ==
    LET FailValues == {Str(<<"a">>), Undefined, Null, List(<<Str(<<"a">>), Undefined>>),
                       List(<<Null>>), List(<<Str(<<"a">>), Str(<<"b">>)>>)}
    IN {<<>>} \cup {<< <<<<"k">>, v>> >> : v \in FailValues}
              \cup {<< <<<<"k">>, Str(<<"a">>)>>, <<<<"m">>, v>> >> : v \in FailValues}

NextFail ==
    \/ \E c \in CallIds, cl \in Clients, q \in FailQueries :
          Request(c, cl, [path |-> BugsPath, replacePath |-> <<>>, query |-> q,
                          fetchOptions |-> NoFetchOptions])
    \/ \E c \in CallIds, ok \in BOOLEAN, status \in {401, 999} : FetchResolve(c, ok, status)
    \/ \E c \in CallIds, kind \in TransportErrors : FetchReject(c, kind)
    \/ \E c \in CallIds, body \in {EmptyBody, Body("a", Absent, Absent)} : JsonResolve(c, body)
    \/ \E c \in CallIds : JsonReject(c)

SpecFail == InitBuild /\ [][NextFail]_vars

\* building the request of the call fails: new URL throws, or toString is
\* called on undefined or null
BuildFails(c) == ~Buildable(c) \/ QueryThrows(calls[c].args.query)

\* C29: a call whose base URL does not parse, or whose query holds undefined
\* or null, is settled as soon as it has been made, as a rejection of the
\* returned promise (nothing is thrown to the caller synchronously) with the
\* TypeError of the build, and the transport has never been called for it
\* and never is.
C29_BuildFailureRejects ==
    \A c \in CallIds :
        (Started(c) /\ BuildFails(c))
        => /\ calls[c].pc = "settled"
           /\ calls[c].outcome.state = "rejected"
           /\ calls[c].outcome.error.kind = "TypeError"
           /\ calls[c].fetches = 0
           /\ calls[c].sent = NoSent
           /\ ~calls[c].response.arrived

C29_Witness ==
    /\ Started(1)
    /\ calls[1].client = 1
    /\ calls[1].args.query = << <<<<"k">>, Str(<<"a">>)>>, <<<<"m">>, List(<<Str(<<"a">>), Undefined>>)>> >>
    /\ calls[1].outcome.state = "rejected"
    /\ calls[1].fetches = 0
    /\ Started(2)
    /\ calls[2].client = 2
    /\ calls[2].args.query = <<>>
    /\ calls[2].outcome.state = "rejected"
    /\ calls[2].fetches = 0

(***************************************************************************)
(* The fair specification: the behaviours of SpecBuild in which the         *)
(* transport settles every promise of fetch it has handed out and the       *)
(* decoding of every response settles. Weak fairness suffices: a pending    *)
(* promise stays pending, so its settling stays enabled, until it settles.  *)
(***************************************************************************)
TransportSettles(c) ==
    \/ \E ok \in BOOLEAN, status \in {401, 999} : FetchResolve(c, ok, status)
    \/ \E kind \in TransportErrors : FetchReject(c, kind)

DecodingSettles(c) ==
    \/ \E body \in {EmptyBody, Body("a", Absent, Absent)} : JsonResolve(c, body)
    \/ JsonReject(c)

SpecLive ==
    /\ InitBuild
    /\ [][NextBuild]_vars
    /\ \A c \in CallIds : WF_vars(TransportSettles(c)) /\ WF_vars(DecodingSettles(c))

\* C30: when the transport settles the promises of fetch and the decoding of
\* the responses settles, every call that has been made is eventually
\* settled; and the step in which the response arrives starts the decoding,
\* with no state of the engine in between.
C30_EveryCallSettles ==
    /\ \A c \in CallIds : Started(c) ~> (calls[c].pc = "settled")
    /\ [][\A c \in CallIds :
            (calls[c].pc = "awaitFetch" /\ calls'[c].pc # "awaitFetch")
            => \/ calls'[c].pc = "settled" /\ calls'[c].jsons = 0
               \/ calls'[c].pc = "awaitJson" /\ calls'[c].jsons = 1]_vars

C30_Witness ==
    /\ Decoded(1)
    /\ calls[1].fetches = 1
    /\ calls[1].jsons = 1
    /\ calls[1].outcome.state = "resolved"
    /\ calls[2].pc = "settled"
    /\ calls[2].fetches = 1
    /\ calls[2].jsons = 0
    /\ calls[2].failure = ForeignError("TypeError")

====
